---- MODULE Spec2Model ----
(***************************************************************************)
(* DIAMONDS: the Results class (src/source/Results.cpp) on top of the      *)
(* posterior sample a nested-sampling run leaves behind, and the driver    *)
(* that produces this sample (section 4.1 of the specification, configured *)
(* as in src/demos/demoHimmelblauFunction.cpp).                            *)
(*                                                                         *)
(* Number representation.  A double that holds a probability or a weight   *)
(* is an exact fraction <<numerator, denominator>>.  A log-domain double   *)
(* ln(w) is stored as the integer w itself, so that the difference of two  *)
(* logarithms is a ratio and exp() of it is the fraction.  Parameter       *)
(* values are integers.  Array subscripts keep the 0-based values of the   *)
(* C++ code; the operator At reads them.                                   *)
(***************************************************************************)
EXTENDS Integers, Sequences, FiniteSets, TLC

\* ------------------------------------------------------------------ bounds
\* Largest number of points of the posterior sample; parameter values are
\* taken on the grid 1..MaxPoints.
MaxPoints == 3
\* The final evidence of the enumerated posterior samples, in weight units.
Evidence == 6
\* Number of cells behind a heap array that can be read without a fault.
HeapSlack == 1

\* Largest initial number of live points of a run.
MaxObjects == 3
\* The prior mass X = 1 at the start of a run, in units.
PriorMassUnits == 4

\* ------------------------------------------------------- program constants
\* int Ndimensions = 2 of the demo.
Ndimensions == 2
\* The flag -DBL_MAX written over a duplicate parameter value.
NegDBL_MAX == -1

Values == 1..MaxPoints
\* credibleLevel arguments (per cent, as fractions): 68.3 of the demo, and 90.
CredibleLevels == {<<683, 10>>, <<90, 1>>}
\* What an uninitialised or out-of-range double can hold, as a parameter value.
GarbageValues == {0, MaxPoints + 1}
\* Numerators (over Evidence) an out-of-range read of a marginal can hold.
GarbageMarginals == {0, Evidence}
\* A double declared without an initialiser holds <<>> until it is assigned v,
\* and then <<v>>.
Uninit == <<>>

VARIABLES
    nestedSampler,          \* the NestedSampler object Results refers to
    run,                    \* the driver's run(): configuration, live set, position
    pc,                     \* position inside Results::parameterEstimation
    credibleLevel,          \* argument of parameterEstimation
    i,                      \* dimension being processed
    parameterComponent,     \* local copy of row i
    marginalDistribution,   \* local copy of the posterior probabilities
    NduplicateParameterComponents,
    meanParameter,
    medianParameter,
    totalProbability,
    k,
    max,
    maximumParameter,
    stepRight,
    min,
    limitParameterLeft,
    limitParameterRight,
    heapBeyond,             \* marginals read behind the end of the array
    parameterEstimates      \* rows written so far

samplerVars == <<nestedSampler, run>>
localVars == <<credibleLevel, i, parameterComponent, marginalDistribution,
               NduplicateParameterComponents, meanParameter, medianParameter,
               totalProbability, k, max, maximumParameter, stepRight, min,
               limitParameterLeft, limitParameterRight, heapBeyond>>
vars == <<nestedSampler, run, pc, localVars, parameterEstimates>>

\* ------------------------------------------------------------- arithmetic
At(a, n) == a[n + 1]
Put(a, n, v) == [a EXCEPT ![n + 1] = v]
Size(a) == Len(a)

Zero == <<0, 1>>
Half == <<1, 2>>
One == <<1, 1>>
Frac(n, d) == <<n, d>>
FracAdd(f, g) ==
    IF f[2] = g[2] THEN <<f[1] + g[1], f[2]>>
    ELSE <<f[1] * g[2] + g[1] * f[2], f[2] * g[2]>>
FracLess(f, g) == f[1] * g[2] < g[1] * f[2]
FracEq(f, g) == f[1] * g[2] = g[1] * f[2]
FracLeq(f, g) == f[1] * g[2] <= g[1] * f[2]
FracScale(c, f) == <<c * f[1], f[2]>>
FracAbsDiff(f, g) ==
    LET n == f[1] * g[2] - g[1] * f[2]
    IN  <<IF n < 0 THEN -n ELSE n, f[2] * g[2]>>

RECURSIVE FracSum(_)
FracSum(a) == IF a = <<>> THEN Zero ELSE FracAdd(a[1], FracSum(Tail(a)))

RECURSIVE IntSum(_)
IntSum(a) == IF a = <<>> THEN 0 ELSE a[1] + IntSum(Tail(a))

\* exp(logA - logB) for log-domain doubles stored as A and B.
ExpOfLogDifference(logA, logB) == Frac(logA, logB)

\* ---------------------------------------------- Results::posteriorProbability
\* exp(logWeight) without the subtraction of the log-evidence.
posteriorProbabilityUnnormalised ==
    [j \in 1..Len(nestedSampler.logWeightOfPosteriorSample) |->
        ExpOfLogDifference(nestedSampler.logWeightOfPosteriorSample[j], 1)]

posteriorProbability ==
    [j \in 1..Len(nestedSampler.logWeightOfPosteriorSample) |->
        ExpOfLogDifference(nestedSampler.logWeightOfPosteriorSample[j],
                           nestedSampler.logEvidence)]

\* ------------------------------------------------- Functions::sortElements
\* Sorts array1 in increasing order and array2 accordingly.
RECURSIVE InsertSorted(_, _, _)
InsertSorted(array1, array2, e) ==
    IF array1 = <<>> \/ e[1] < array1[1]
    THEN <<(<<e[1]>> \o array1), (<<e[2]>> \o array2)>>
    ELSE LET rest == InsertSorted(Tail(array1), Tail(array2), e)
         IN  <<(<<array1[1]>> \o rest[1]), (<<array2[1]>> \o rest[2])>>

RECURSIVE sortElements(_, _)
sortElements(array1, array2) ==
    IF array1 = <<>> THEN <<(<<>>), (<<>>)>>
    ELSE LET n == Len(array1)
             front == sortElements(SubSeq(array1, 1, n - 1), SubSeq(array2, 1, n - 1))
         IN  InsertSorted(front[1], front[2], <<array1[n], array2[n]>>)

\* ------------------------------------------- Results::parameterEstimation
Niterations == Len(nestedSampler.posteriorSample[1])

\* The inner loop with the duplicate flagged but its probability not added.
RECURSIVE MergeInnerDropsMass(_, _, _)
MergeInnerDropsMass(st, j, kk) ==
    IF ~(kk < Size(st.parameterComponent)) THEN st
    ELSE IF At(st.parameterComponent, kk) = NegDBL_MAX
         THEN MergeInnerDropsMass(st, j, kk + 1)
         ELSE IF At(st.parameterComponent, j) = At(st.parameterComponent, kk)
              THEN MergeInnerDropsMass(
                     [parameterComponent |-> Put(st.parameterComponent, kk, NegDBL_MAX),
                      marginalDistribution |-> Put(st.marginalDistribution, kk, Zero),
                      NduplicateParameterComponents |->
                          st.NduplicateParameterComponents + 1],
                     j, kk + 1)
              ELSE MergeInnerDropsMass(st, j, kk + 1)

\* Lines 136-148: the inner loop over k for one j.
RECURSIVE MergeInner(_, _, _)
MergeInner(st, j, kk) ==
    IF ~(kk < Size(st.parameterComponent)) THEN st
    ELSE IF At(st.parameterComponent, kk) = NegDBL_MAX
         THEN MergeInner(st, j, kk + 1)
         ELSE IF At(st.parameterComponent, j) = At(st.parameterComponent, kk)
              THEN MergeInner(
                     [parameterComponent |-> Put(st.parameterComponent, kk, NegDBL_MAX),
                      marginalDistribution |->
                          Put(Put(st.marginalDistribution, j,
                                  FracAdd(At(st.marginalDistribution, j),
                                          At(st.marginalDistribution, kk))),
                              kk, Zero),
                      NduplicateParameterComponents |->
                          st.NduplicateParameterComponents + 1],
                     j, kk + 1)
              ELSE MergeInner(st, j, kk + 1)

\* Lines 130-150: the outer loop over j.
RECURSIVE MergeDuplicates(_, _)
MergeDuplicates(st, j) ==
    IF ~(j < Size(st.parameterComponent) - 1) THEN st
    ELSE IF At(st.parameterComponent, j) = NegDBL_MAX
         THEN MergeDuplicates(st, j + 1)
         ELSE MergeDuplicates(MergeInner(st, j, j + 1), j + 1)

\* Lines 160-173: copy of the entries that do not carry the flag.
RECURSIVE CopyGood(_, _, _)
CopyGood(st, m, copy) ==
    IF ~(m < Size(st.parameterComponent)
         /\ Len(copy.parameterComponent)
              < Size(st.parameterComponent) - st.NduplicateParameterComponents)
    THEN copy
    ELSE IF At(st.parameterComponent, m) = NegDBL_MAX
         THEN CopyGood(st, m + 1, copy)
         ELSE CopyGood(st, m + 1,
                [parameterComponent |->
                     Append(copy.parameterComponent, At(st.parameterComponent, m)),
                 marginalDistribution |->
                     Append(copy.marginalDistribution, At(st.marginalDistribution, m)),
                 NduplicateParameterComponents |-> st.NduplicateParameterComponents])

\* Lines 155-180: the block is skipped when no duplicate was found.
RemoveBadPoints(st) ==
    IF st.NduplicateParameterComponents > 0
    THEN CopyGood(st, 0, [parameterComponent |-> <<>>, marginalDistribution |-> <<>>,
                          NduplicateParameterComponents |->
                              st.NduplicateParameterComponents])
    ELSE st

\* Line 187: (parameterComponent.cwiseProduct(marginalDistribution)).sum()
MeanOf(p, m) == FracSum([n \in 1..Len(p) |-> FracScale(p[n], m[n])])

\* The scan with the test totalProbability <= 0.5.
RECURSIVE MedianScanInclusive(_, _, _)
MedianScanInclusive(p, m, st) ==
    IF ~FracLeq(st.totalProbability, Half) THEN st
    ELSE IF st.k >= Size(p) THEN [st EXCEPT !.overrun = TRUE]
         ELSE MedianScanInclusive(p, m,
                [medianParameter |-> At(p, st.k),
                 totalProbability |-> FracAdd(st.totalProbability, At(m, st.k)),
                 k |-> st.k + 1,
                 overrun |-> FALSE])

\* Lines 194-202: the scan for the median.  overrun is set when the scan would
\* read parameterComponent(k) with k outside the array.
RECURSIVE MedianScan(_, _, _)
MedianScan(p, m, st) ==
    IF ~FracLess(st.totalProbability, Half) THEN st
    ELSE IF st.k >= Size(p) THEN [st EXCEPT !.overrun = TRUE]
         ELSE MedianScan(p, m,
                [medianParameter |-> At(p, st.k),
                 totalProbability |-> FracAdd(st.totalProbability, At(m, st.k)),
                 k |-> st.k + 1,
                 overrun |-> FALSE])

\* A maximum search that keeps the last subscript of the largest coefficient.
RECURSIVE maxCoeffLast(_, _, _)
maxCoeffLast(a, n, best) ==
    IF n >= Size(a) THEN best
    ELSE maxCoeffLast(a, n + 1, IF FracLeq(At(a, best), At(a, n)) THEN n ELSE best)

\* Eigen's maxCoeff(&index): the first subscript of the largest coefficient.
RECURSIVE maxCoeff(_, _, _)
maxCoeff(a, n, best) ==
    IF n >= Size(a) THEN best
    ELSE maxCoeff(a, n + 1, IF FracLess(At(a, best), At(a, n)) THEN n ELSE best)

\* Eigen's minCoeff(&index): the first subscript of the smallest coefficient.
RECURSIVE minCoeff(_, _, _)
minCoeff(a, n, best) ==
    IF n >= Size(a) THEN best
    ELSE minCoeff(a, n + 1, IF FracLess(At(a, n), At(a, best)) THEN n ELSE best)

\* Lines 225-234: the marginal distribution up to the mode value.
marginalDistributionLeft == SubSeq(marginalDistribution, 1, max + 1)

\* Line 242: (marginalDistributionLeft - limitProbabilityRight).abs()
marginalDifferenceLeft(limitProbabilityRight) ==
    [n \in 1..Len(marginalDistributionLeft) |->
        FracAbsDiff(marginalDistributionLeft[n], limitProbabilityRight)]

\* Lines 250-253: the sum over t = min .. max + stepRight; the cells behind the
\* end of marginalDistribution are the ones in beyond.
RangeProbability(from, to, beyond) ==
    LET cells == marginalDistribution \o beyond
    IN  FracSum(SubSeq(cells, from + 1, to + 1))

\* The values a read of the local x can yield.
ReadOf(x) == IF x = Uninit THEN GarbageValues ELSE {x[1]}

\* credibleLevel/100.
CredibleFraction == Frac(credibleLevel[1], credibleLevel[2] * 100)

LocalsOutOfScope ==
    /\ i = 0 /\ parameterComponent = <<>> /\ marginalDistribution = <<>>
    /\ NduplicateParameterComponents = 0
    /\ meanParameter = Zero /\ medianParameter = 0 /\ totalProbability = Zero
    /\ k = 0 /\ max = 0 /\ maximumParameter = 0 /\ stepRight = 0 /\ min = 0
    /\ limitParameterLeft = Uninit /\ limitParameterRight = Uninit
    /\ heapBeyond = <<>>

\* The posterior points the enumerated samples are made of: the second
\* coordinate repeats the first one, or mirrors it on the grid.
Mirror(v) == MaxPoints + 1 - v
SecondCoordinate(shape, v) == IF shape = "same" THEN v ELSE Mirror(v)

\* The likelihood function of the run (a user-supplied collaborator).
Likelihood(theta) == theta[1]

\* The weights of n points that add up to total; each is exp() of a finite
\* log-weight, hence positive.
Compositions(n, total) ==
    {w \in [1..n -> 1..total] : IntSum(w) = total}

\* A NestedSampler after run(): n posterior points, weights adding up to the
\* final evidence.
TerminatedSamplers ==
    UNION {
        { [posteriorSample |-> <<row, [j \in 1..n |-> SecondCoordinate(shape, row[j])]>>,
           logLikelihoodOfPosteriorSample |->
               [j \in 1..n |-> Likelihood(<<row[j], SecondCoordinate(shape, row[j])>>)],
           logWeightOfPosteriorSample |-> w,
           logEvidence |-> Evidence] :
            row \in [1..n -> Values], shape \in {"same", "mirror"},
            w \in Compositions(n, Evidence) } :
        n \in 1..MaxPoints }

\* The run of the sampler is over when Results is used.
RunTerminated == [pc |-> "done"]

Init ==
    /\ nestedSampler \in TerminatedSamplers
    /\ run = RunTerminated
    /\ pc = "idle"
    /\ credibleLevel = Zero
    /\ LocalsOutOfScope
    /\ parameterEstimates = <<>>

\* Line 98 and 100-108: the call, with its argument.
Call(level) ==
    /\ pc = "idle"
    /\ credibleLevel' = level
    /\ i' = 0
    /\ parameterEstimates' = <<>>
    /\ pc' = "copy"
    /\ UNCHANGED <<samplerVars, parameterComponent, marginalDistribution,
                   NduplicateParameterComponents, meanParameter, medianParameter,
                   totalProbability, k, max, maximumParameter, stepRight, min,
                   limitParameterLeft, limitParameterRight, heapBeyond>>

\* Lines 115-116: the local copies of dimension d.
CopyOfDimension(d) ==
    [parameterComponent |-> nestedSampler.posteriorSample[d + 1],
     marginalDistribution |-> posteriorProbability]

\* Lines 113-122: the copies of row i and of the posterior, sorted.
CopyAndSort ==
    /\ pc = "copy"
    /\ i < Ndimensions
    /\ LET copy == CopyOfDimension(i)
           sorted == sortElements(copy.parameterComponent, copy.marginalDistribution)
       IN  /\ parameterComponent' = sorted[1]
           /\ marginalDistribution' = sorted[2]
    /\ pc' = "merge"
    /\ UNCHANGED <<samplerVars, credibleLevel, i, NduplicateParameterComponents,
                   meanParameter, medianParameter, totalProbability, k, max,
                   maximumParameter, stepRight, min, limitParameterLeft,
                   limitParameterRight, heapBeyond, parameterEstimates>>

\* Lines 128-180: equal parameter values are merged and the flagged entries removed.
Merge ==
    /\ pc = "merge"
    /\ LET merged == MergeDuplicates(
                        [parameterComponent |-> parameterComponent,
                         marginalDistribution |-> marginalDistribution,
                         NduplicateParameterComponents |-> 0], 0)
           kept == RemoveBadPoints(merged)
       IN  /\ parameterComponent' = kept.parameterComponent
           /\ marginalDistribution' = kept.marginalDistribution
           /\ NduplicateParameterComponents' = kept.NduplicateParameterComponents
    /\ pc' = "statistics"
    /\ UNCHANGED <<samplerVars, credibleLevel, i, meanParameter, medianParameter,
                   totalProbability, k, max, maximumParameter, stepRight, min,
                   limitParameterLeft, limitParameterRight, heapBeyond,
                   parameterEstimates>>

\* Lines 183-234: mean, median and mode, and the declarations that precede the
\* search for the credible interval (the two limits are not initialised).
Statistics ==
    /\ pc = "statistics"
    /\ LET scan == MedianScan(parameterComponent, marginalDistribution,
                              [medianParameter |-> medianParameter,
                               totalProbability |-> Zero, k |-> 0, overrun |-> FALSE])
           mode == maxCoeff(marginalDistribution, 1, 0)
       IN  /\ meanParameter' = MeanOf(parameterComponent, marginalDistribution)
           /\ medianParameter' = scan.medianParameter
           /\ totalProbability' = scan.totalProbability
           /\ k' = scan.k
           /\ max' = mode
           /\ maximumParameter' = At(parameterComponent, mode)
           /\ pc' = IF scan.overrun THEN "fault in median scan" ELSE "interval"
    /\ stepRight' = 1
    /\ limitParameterLeft' = Uninit
    /\ limitParameterRight' = Uninit
    /\ heapBeyond' = <<>>
    /\ UNCHANGED <<samplerVars, credibleLevel, i, parameterComponent,
                   marginalDistribution, NduplicateParameterComponents, min,
                   parameterEstimates>>

\* Lines 239-255: one pass of the loop body, once the marginal and the parameter
\* at max + stepRight have been read.
IntervalPass(limitProbabilityRight, parameterRight, beyond) ==
    /\ limitParameterRight' = <<parameterRight>>
    /\ LET left == minCoeff(marginalDifferenceLeft(limitProbabilityRight), 1, 0)
       IN  /\ min' = left
           /\ limitParameterLeft' = <<At(parameterComponent, left)>>
           /\ totalProbability' = RangeProbability(left, max + stepRight, beyond)
    /\ heapBeyond' = beyond
    /\ stepRight' = stepRight + 1

\* Lines 237-256 with max + stepRight inside the arrays.
IntervalStep ==
    /\ pc = "interval"
    /\ FracLess(totalProbability, CredibleFraction)
    /\ max + stepRight < Size(marginalDistribution)
    /\ IntervalPass(At(marginalDistribution, max + stepRight),
                    At(parameterComponent, max + stepRight), heapBeyond)
    /\ UNCHANGED <<samplerVars, pc, credibleLevel, i, parameterComponent,
                   marginalDistribution, NduplicateParameterComponents, meanParameter,
                   medianParameter, k, max, maximumParameter, parameterEstimates>>

\* Lines 237-256 with max + stepRight behind the end of the arrays: Eigen's
\* range assertion stops the program, or (assertions compiled out) the cells
\* behind the arrays are read, or the read faults.
IntervalStepOutOfRange ==
    /\ pc = "interval"
    /\ FracLess(totalProbability, CredibleFraction)
    /\ ~(max + stepRight < Size(marginalDistribution))
    /\ \/ /\ pc' = "fault in interval search"
          /\ UNCHANGED <<stepRight, min, limitParameterLeft, limitParameterRight,
                         heapBeyond, totalProbability>>
       \/ /\ Len(heapBeyond) < HeapSlack
          /\ \E g \in GarbageMarginals, v \in GarbageValues :
                IntervalPass(Frac(g, Evidence), v, Append(heapBeyond, Frac(g, Evidence)))
          /\ pc' = pc
    /\ UNCHANGED <<samplerVars, credibleLevel, i, parameterComponent,
                   marginalDistribution, NduplicateParameterComponents, meanParameter,
                   medianParameter, k, max, maximumParameter, parameterEstimates>>

\* Lines 258-265: the row of dimension i, from the limits as they are.
EstimatesRow(left, right) ==
    <<meanParameter, medianParameter, maximumParameter,
      maximumParameter - left, right - maximumParameter>>

\* Lines 237 (loop exit), 258-267: the row is stored and the next dimension starts.
IntervalDone ==
    /\ pc = "interval"
    /\ ~FracLess(totalProbability, CredibleFraction)
    /\ \E left \in ReadOf(limitParameterLeft), right \in ReadOf(limitParameterRight) :
          parameterEstimates' = Append(parameterEstimates, EstimatesRow(left, right))
    /\ i' = i + 1
    /\ pc' = IF i + 1 < Ndimensions THEN "copy" ELSE "return"
    /\ UNCHANGED <<samplerVars, credibleLevel, parameterComponent,
                   marginalDistribution, NduplicateParameterComponents, meanParameter,
                   medianParameter, totalProbability, k, max, maximumParameter,
                   stepRight, min, limitParameterLeft, limitParameterRight, heapBeyond>>

\* Line 269: the array is returned and the locals go out of scope.
Return ==
    /\ pc = "return"
    /\ pc' = "idle"
    /\ i' = 0 /\ parameterComponent' = <<>> /\ marginalDistribution' = <<>>
    /\ NduplicateParameterComponents' = 0
    /\ meanParameter' = Zero /\ medianParameter' = 0 /\ totalProbability' = Zero
    /\ k' = 0 /\ max' = 0 /\ maximumParameter' = 0 /\ stepRight' = 0 /\ min' = 0
    /\ limitParameterLeft' = Uninit /\ limitParameterRight' = Uninit
    /\ heapBeyond' = <<>>
    /\ UNCHANGED <<samplerVars, credibleLevel, parameterEstimates>>

Next ==
    \/ \E level \in CredibleLevels : Call(level)
    \/ CopyAndSort
    \/ Merge
    \/ Statistics
    \/ IntervalStep
    \/ IntervalStepOutOfRange
    \/ IntervalDone
    \/ Return

Spec == Init /\ [][Next]_vars

\* ======================================================================
\* Properties of Results::parameterEstimation, checked under Spec.
\* ======================================================================

\* The values of dimension d (0-based) in the posterior sample.
SampleValues(d) ==
    {nestedSampler.posteriorSample[d + 1][j] : j \in 1..Niterations}

\* The posterior probability of the points whose value in dimension d
\* satisfies the test, added up point by point.
RECURSIVE MassUpTo(_, _, _)
MassUpTo(d, Test(_), n) ==
    IF n = 0 THEN Zero
    ELSE FracAdd(MassUpTo(d, Test, n - 1),
                 IF Test(nestedSampler.posteriorSample[d + 1][n])
                 THEN posteriorProbability[n] ELSE Zero)

MassAt(d, v) == LET Is(x) == x = v IN MassUpTo(d, Is, Niterations)
MassBelowOrAt(d, v) == LET Is(x) == x <= v IN MassUpTo(d, Is, Niterations)
MassWithin(d, lo, hi) ==
    LET Is(x) == lo <= x /\ x <= hi IN MassUpTo(d, Is, Niterations)

\* A row has been stored for dimension i - 1, whose merged arrays are still in
\* parameterComponent and marginalDistribution.
Reported == pc \in {"copy", "return"} /\ i > 0
ReportedRow == parameterEstimates[i]
ReportedMode == ReportedRow[3]
ReportedLeft == ReportedRow[3] - ReportedRow[4]
ReportedRight == ReportedRow[3] + ReportedRow[5]
\* The search assigned both limits from cells of the arrays.
SearchWithinArrays ==
    limitParameterLeft # Uninit /\ limitParameterRight # Uninit /\ heapBeyond = <<>>

\* C2: the reported interval [mode - lower offset, mode + upper offset] of each
\* dimension has sampled parameter values as endpoints and holds at least
\* credibleLevel/100 of the merged marginal probability.
C2_IntervalCoversCredibleLevel ==
    Reported =>
        /\ ReportedLeft \in SampleValues(i - 1)
        /\ ReportedRight \in SampleValues(i - 1)
        /\ FracLeq(CredibleFraction, MassWithin(i - 1, ReportedLeft, ReportedRight))

\* C3: no contiguous run of the merged values that contains the mode and holds
\* at least credibleLevel/100 of the probability is narrower than the reported
\* interval (stated for the searches that stay within the arrays).
C3_IntervalIsShortest ==
    (Reported /\ SearchWithinArrays) =>
        \A a \in 0..max, b \in max..(Size(parameterComponent) - 1) :
            FracLeq(CredibleFraction, RangeProbability(a, b, <<>>))
                => At(parameterComponent, b) - At(parameterComponent, a)
                     >= ReportedRight - ReportedLeft

\* C4: after the merge step the values of the dimension are strictly
\* increasing, each carries the summed probability of the points that had it,
\* there is one entry per distinct value, and no probability is lost.
C4_TiesMerged ==
    pc = "statistics" =>
        /\ \A n \in 1..(Len(parameterComponent) - 1) :
              parameterComponent[n] < parameterComponent[n + 1]
        /\ Len(parameterComponent) = Cardinality(SampleValues(i))
        /\ Len(marginalDistribution) = Len(parameterComponent)
        /\ \A n \in 1..Len(parameterComponent) :
              /\ parameterComponent[n] \in SampleValues(i)
              /\ FracEq(marginalDistribution[n], MassAt(i, parameterComponent[n]))
        /\ FracEq(FracSum(marginalDistribution), FracSum(posteriorProbability))

C4_Witness ==
    /\ pc = "statistics"
    /\ NduplicateParameterComponents > 0
    /\ Len(parameterComponent) > 1
    /\ Len(parameterComponent) + NduplicateParameterComponents = Niterations

\* C5: the reported median is the smallest value of the dimension at which
\* the cumulative marginal probability reaches 1/2, and the scan for it ends
\* at a subscript inside the array.
C5_MedianIsHalfMassValue ==
    /\ pc # "fault in median scan"
    /\ Reported =>
        /\ ReportedRow[2] \in SampleValues(i - 1)
        /\ FracLeq(Half, MassBelowOrAt(i - 1, ReportedRow[2]))
        /\ \A v \in SampleValues(i - 1) :
              v < ReportedRow[2] => FracLess(MassBelowOrAt(i - 1, v), Half)
        /\ 1 <= k /\ k <= Size(parameterComponent)
        /\ ReportedRow[2] = At(parameterComponent, k - 1)

C5_Witness ==
    /\ Reported
    /\ 1 < k /\ k < Size(parameterComponent)
    /\ FracEq(MassBelowOrAt(i - 1, ReportedRow[2]), Half)

\* C6: the reported mode is a value of the dimension whose merged probability
\* is the largest, and the smallest such value when several share it.
C6_ModeIsFirstMaximum ==
    Reported =>
        /\ ReportedMode \in SampleValues(i - 1)
        /\ \A v \in SampleValues(i - 1) :
              /\ FracLeq(MassAt(i - 1, v), MassAt(i - 1, ReportedMode))
              /\ v < ReportedMode
                    => FracLess(MassAt(i - 1, v), MassAt(i - 1, ReportedMode))

C6_Witness ==
    /\ Reported
    /\ \E v \in SampleValues(i - 1) :
          v > ReportedMode /\ FracEq(MassAt(i - 1, v), MassAt(i - 1, ReportedMode))
    /\ NduplicateParameterComponents > 0

\* C8: every subscript max + stepRight the search reads lies inside the arrays,
\* and the search does not end in a fault.
C8_SearchReadsInsideArrays ==
    /\ pc # "fault in interval search"
    /\ (pc = "interval" /\ FracLess(totalProbability, CredibleFraction))
          => max + stepRight <= Size(marginalDistribution) - 1

\* C9: both offsets of a reported row are non-negative: the left limit is a
\* merged value at or below the mode and the right limit one above it.
C9_OffsetsBracketMode ==
    Reported =>
        /\ ReportedRow[4] >= 0 /\ ReportedRow[5] >= 0
        /\ \E n \in 0..max : At(parameterComponent, n) = ReportedLeft
        /\ \E n \in (max + 1)..(Size(parameterComponent) - 1) :
              At(parameterComponent, n) = ReportedRight

\* C10: parameterEstimation works on local copies that every dimension takes
\* afresh from the sampler, so the row of a dimension is determined by the
\* values of that dimension: two dimensions holding the same values get the
\* same row.
C10_DimensionsIndependent ==
    /\ pc = "merge" =>
          /\ Len(parameterComponent) = Niterations
          /\ \A v \in SampleValues(i) :
                FracEq(MassAt(i, v),
                       FracSum([n \in 1..Niterations |->
                                   IF parameterComponent[n] = v
                                   THEN marginalDistribution[n] ELSE Zero]))
    /\ (Len(parameterEstimates) = Ndimensions
          /\ nestedSampler.posteriorSample[1] = nestedSampler.posteriorSample[2])
          => parameterEstimates[1] = parameterEstimates[2]

\* The part of C10 about the sampler: no step of parameterEstimation changes it.
SamplerUntouched == [][nestedSampler' = nestedSampler]_vars

\* ======================================================================
\* NestedSampler::run (specification, section 4.1), configured by the demo.
\* ======================================================================

\* A demo whose minNobjects is below its initialNobjects.
demoConfigurationShrinking ==
    [initialNobjects |-> MaxObjects, minNobjects |-> MaxObjects - 1,
     terminationFactor |-> <<1, 100>>, demo |-> TRUE]

\* Lines 88-98 of the demo: the population may not shrink (minNobjects equals
\* initialNobjects, 400 there and MaxObjects here) and terminationFactor = 0.01.
demoConfiguration ==
    [initialNobjects |-> MaxObjects, minNobjects |-> MaxObjects,
     terminationFactor |-> <<1, 100>>, demo |-> TRUE]

\* Other configurations a caller can pass: N_min <= N_initial.
Configurations ==
    {demoConfiguration} \cup
    UNION { { [initialNobjects |-> n, minNobjects |-> m,
               terminationFactor |-> <<1, 2>>, demo |-> FALSE] : m \in 1..n } :
            n \in 1..MaxObjects }

\* The points of the prior the live points are drawn from.
PriorPoints == {<<v, Mirror(v)>> : v \in Values}

RECURSIVE Factorial(_)
Factorial(n) == IF n <= 1 THEN 1 ELSE n * Factorial(n - 1)
\* Weights are kept in units of 1/WeightScale so that X/N_live is a whole number.
WeightScale == Factorial(MaxObjects)

\* log X_i = log X_(i-1) - 1/N_live, on whole units of prior mass.
ShrunkPriorMass(X, N) == (X * N) \div (N + 1)

\* The subscript of the live point with minimum logL (the first one on ties).
RECURSIVE WorstOf(_, _, _)
WorstOf(live, n, best) ==
    IF n > Len(live) THEN best
    ELSE WorstOf(live, n + 1,
                 IF Likelihood(live[n]) < Likelihood(live[best]) THEN n ELSE best)

RECURSIVE MaxLikelihood(_)
MaxLikelihood(live) ==
    IF Len(live) = 1 THEN Likelihood(live[1])
    ELSE LET rest == MaxLikelihood(Tail(live))
         IN  IF Likelihood(live[1]) > rest THEN Likelihood(live[1]) ELSE rest

\* A point with its weight joins the posterior sample, and the evidence.
Appended(sampler, theta, weight, toEvidence) ==
    [posteriorSample |->
         [d \in 1..Ndimensions |-> Append(sampler.posteriorSample[d], theta[d])],
     logLikelihoodOfPosteriorSample |->
         Append(sampler.logLikelihoodOfPosteriorSample, Likelihood(theta)),
     logWeightOfPosteriorSample |-> Append(sampler.logWeightOfPosteriorSample, weight),
     logEvidence |-> sampler.logEvidence + toEvidence]

\* Step 2 up to the replacement: the worst point is retired with
\* w = (X_(i-1) - X_i) L_worst.
Retired(sampler, r) ==
    LET worst == WorstOf(r.live, 1, 1)
        X == ShrunkPriorMass(r.priorMass, r.Nobjects)
        w == (r.priorMass - X) * Likelihood(r.live[worst]) * WeightScale
    IN  [sampler |-> Appended(sampler, r.live[worst], w, w),
         worst |-> worst, priorMass |-> X]

RemoveAt(live, n) == SubSeq(live, 1, n - 1) \o SubSeq(live, n + 1, Len(live))

\* Step 2, Reduce: the population after the reducer returned target.
ReducedPopulation(target, N, minN) ==
    IF target < N THEN (IF target < minN THEN minN ELSE target) ELSE N

\* The additional worst points are dropped one by one, each with its weight.
RECURSIVE Dropped(_, _, _)
Dropped(sampler, r, newN) ==
    IF r.Nobjects <= newN THEN [sampler |-> sampler, r |-> r]
    ELSE LET out == Retired(sampler, r)
         IN  Dropped(out.sampler,
                     [r EXCEPT !.live = RemoveAt(r.live, out.worst),
                               !.Nobjects = r.Nobjects - 1,
                               !.priorMass = out.priorMass],
                     newN)

\* Termination test: remaining evidence max(L) X against termination_factor Z.
Terminates(sampler, r) ==
    MaxLikelihood(r.live) * r.priorMass * WeightScale * r.terminationFactor[2]
        < r.terminationFactor[1] * sampler.logEvidence

\* Step 3: the surviving live points, each with weight (X_final/N_live) L.
RECURSIVE Finalized(_, _, _)
Finalized(sampler, r, n) ==
    IF n > Len(r.live) THEN sampler
    ELSE LET w == r.priorMass * (WeightScale \div r.Nobjects) * Likelihood(r.live[n])
         IN  Finalized(Appended(sampler, r.live[n], w, w), r, n + 1)

EmptySampler ==
    [posteriorSample |-> [d \in 1..Ndimensions |-> <<>>],
     logLikelihoodOfPosteriorSample |-> <<>>,
     logWeightOfPosteriorSample |-> <<>>,
     logEvidence |-> 0]

\* Step 1: the initial live points; logZ = -infinity, log X_0 = 0.
InitRun ==
    /\ nestedSampler = EmptySampler
    /\ \E c \in Configurations, live \in [1..MaxObjects -> PriorPoints] :
          run = [pc |-> "iterate",
                 demo |-> c.demo,
                 initialNobjects |-> c.initialNobjects,
                 minNobjects |-> c.minNobjects,
                 terminationFactor |-> c.terminationFactor,
                 Nobjects |-> c.initialNobjects,
                 live |-> SubSeq(live, 1, c.initialNobjects),
                 priorMass |-> PriorMassUnits,
                 target |-> c.initialNobjects]
    /\ pc = "idle"
    /\ credibleLevel = Zero
    /\ LocalsOutOfScope
    /\ parameterEstimates = <<>>

resultsVars == <<pc, localVars, parameterEstimates>>

\* Step 2 up to Replace: the worst point is retired and a point of higher
\* likelihood takes its place; the run fails when no such point is drawn.
Iterate ==
    /\ run.pc = "iterate"
    /\ LET out == Retired(nestedSampler, run)
           above == {theta \in PriorPoints :
                        Likelihood(theta) > Likelihood(run.live[out.worst])}
       IN  /\ nestedSampler' = out.sampler
           /\ \/ \E theta \in above :
                    run' = [run EXCEPT !.pc = "reduce",
                                       !.live[out.worst] = theta,
                                       !.priorMass = out.priorMass]
              \/ /\ above = {}
                 /\ run' = [run EXCEPT !.pc = "DrawExhausted",
                                       !.priorMass = out.priorMass]
    /\ UNCHANGED resultsVars

\* Step 2, Reduce and termination test.
Reduce(target) ==
    /\ run.pc = "reduce"
    /\ LET newN == ReducedPopulation(target, run.Nobjects, run.minNobjects)
           out == Dropped(nestedSampler, [run EXCEPT !.target = target], newN)
       IN  /\ nestedSampler' = out.sampler
           /\ run' = [out.r EXCEPT !.pc = IF Terminates(out.sampler, out.r)
                                          THEN "finalize" ELSE "iterate"]
    /\ UNCHANGED resultsVars

\* Step 3.
Finalize ==
    /\ run.pc = "finalize"
    /\ nestedSampler' = Finalized(nestedSampler, run, 1)
    /\ run' = [run EXCEPT !.pc = "done"]
    /\ UNCHANGED resultsVars

NextRun ==
    \/ Iterate
    \/ \E target \in 0..(MaxObjects + 1) : Reduce(target)
    \/ Finalize

SpecRun == InitRun /\ [][NextRun]_vars

PopulationWithinBounds ==
    /\ run.minNobjects <= run.Nobjects
    /\ run.Nobjects <= run.initialNobjects
    /\ Len(run.live) = run.Nobjects
    /\ run.demo => run.Nobjects = run.initialNobjects

\* C7: the number of live points stays within [N_min, N_initial] and never
\* increases, whatever target the reducer returns; with the demo's
\* N_initial = N_min it keeps its initial value.
C7_PopulationBounded ==
    /\ []PopulationWithinBounds
    /\ [][run'.Nobjects <= run.Nobjects]_vars

\* The reducer asked for fewer than N_min points and the population stopped
\* at N_min.
C7_Witness ==
    /\ run.pc \in {"iterate", "finalize"}
    /\ run.target < run.minNobjects
    /\ run.Nobjects = run.minNobjects
    /\ run.demo

====
